---- MODULE Spec2Model ----
(***************************************************************************)
(* State-machine model of the BMD application (src/app/main.py and         *)
(* src/app/database.py): the users and workflows tables, the bearer        *)
(* tokens, the browser sessions and the REST / page handlers that read     *)
(* and write them.  Every handler is one atomic action: the handlers are   *)
(* coroutines of one event loop and make only synchronous database calls   *)
(* between their awaits.                                                    *)
(***************************************************************************)
EXTENDS Integers, Sequences, FiniteSets, TLC

\* ------------------------------------------------------------------ bounds
MaxUsers == 3
PreUsers == 2
\* The clock stops at MaxTime hours; it is read every TickHours hours.
MaxTime == 32
TickHours == 8
\* Connections are counted up to MaxConns.
MaxConns == 2

\* ------------------------------------------------------- program constants
ACCESS_TOKEN_EXPIRE_HOURS == 24
MIN_PASSWORD_LEN == 6

\* Python None / SQL NULL of a text column; no text value equals it.
None == "<None>"
\* SQL NULL of a TIMESTAMP column (timestamps are clock readings >= 0).
NullTime == -1

\* --------------------------------------------------------------- input sets
Browsers == {"b1", "b2"}
Emails == {"a@x.org", "b@x.org"}
Passwords == {"secret1", "secret2"}
ShortPassword == "abc"
Names == {"Ann"}
WorkflowIds == {"w1", "w2"}
BadToken == [sub |-> 0, exp |-> 0, key |-> "other"]
\* A token for user 1 that is not expired but was signed with another key.
ForgedToken == [sub |-> 1, exp |-> 1000, key |-> "other"]

\* Python truthiness of an Optional[str].
Truthy(x) == x # None /\ x # ""

\* Results dictionaries a webhook body can carry (None: the field is absent),
\* and str() of each, which is what the handler passes on.
EmptyDict == "dict#0"
AucDict == "dict#1"
str(x) ==
    CASE x = None -> "None"
      [] x = EmptyDict -> "{}"
      [] x = AucDict -> "{'auc': 1}"
      [] OTHER -> x

\* ORCID texts are sequences of characters, so that strip() and the pattern
\* are computed; NoneSeq is Python None / SQL NULL for such a text.
NoneSeq == <<None>>
TruthySeq(x) == x # NoneSeq /\ x # <<>>
Grp == <<"0", "0", "0", "1">>
OrcidDigit == Grp \o <<"-">> \o Grp \o <<"-">> \o Grp \o <<"-">> \o Grp
OrcidX == Grp \o <<"-">> \o Grp \o <<"-">> \o Grp \o <<"-">> \o <<"0", "0", "0", "X">>
OrcidLowerX == Grp \o <<"-">> \o Grp \o <<"-">> \o Grp \o <<"-">> \o <<"0", "0", "0", "x">>

IsSpace(c) == c \in {" ", "\t", "\n"}
IsDigit(c) == c \in {"0", "1", "2", "3", "4", "5", "6", "7", "8", "9"}

RECURSIVE lstrip(_)
lstrip(s) == IF s # <<>> /\ IsSpace(Head(s)) THEN lstrip(Tail(s)) ELSE s

RECURSIVE rstrip(_)
rstrip(s) ==
    IF s # <<>> /\ IsSpace(s[Len(s)]) THEN rstrip(SubSeq(s, 1, Len(s) - 1)) ELSE s

\* str.strip()
strip(s) == rstrip(lstrip(s))

\* orcid_input.value.strip() if orcid_input.value else None
OrcidField(value) == IF value # <<>> THEN strip(value) ELSE NoneSeq

\* (variant: a pattern whose last character may also be a lower-case x)
orcid_pattern_any_case(orcid) ==
    /\ Len(orcid) = 19
    /\ \A i \in {5, 10, 15} : orcid[i] = "-"
    /\ \A i \in (1..18) \ {5, 10, 15} : IsDigit(orcid[i])
    /\ IsDigit(orcid[19]) \/ orcid[19] \in {"X", "x"}

\* re.match(r"^\d{4}-\d{4}-\d{4}-\d{3}[\dX]$", orcid) on a stripped text
orcid_pattern(orcid) ==
    /\ Len(orcid) = 19
    /\ \A i \in {5, 10, 15} : orcid[i] = "-"
    /\ \A i \in (1..18) \ {5, 10, 15} : IsDigit(orcid[i])
    /\ IsDigit(orcid[19]) \/ orcid[19] = "X"

\* ----------------------------------------------------------------- state
VARIABLES users, workflows, nextUid, session, acct, wfpage, now, resp, conns, cpage

\* conns is the number of database connections that are open.
vars == <<users, workflows, nextUid, session, acct, wfpage, now, resp, conns, cpage>>

\* ------------------------------------------------- password hashing / JWT
\* pwd_context.hash: a bcrypt digest determined by the password (the salt is
\* not modelled); distinct passwords give distinct digests.
hash_password(password) == "$2b$" \o password

\* (variant: a verification that accepts every password)
verify_password_any(plain_password, hashed_password) == TRUE

verify_password(plain_password, hashed_password) ==
    hashed_password = hash_password(plain_password)

\* jwt.encode of {"sub": user_id, "exp": now + 24h} under SECRET_KEY.
create_access_token(user_id) ==
    [sub |-> user_id, exp |-> now + ACCESS_TOKEN_EXPIRE_HOURS, key |-> "SECRET_KEY"]

\* (variant: a decoder that does not verify the signature)
verify_token_any_key(token) == IF token.exp > now THEN token.sub ELSE 0

\* (variant: a decoder that does not look at the expiry)
verify_token_no_expiry(token) == IF token.key = "SECRET_KEY" THEN token.sub ELSE 0

\* jwt.decode: the subject, or None when the signature does not verify or the
\* token has expired (PyJWT rejects a token once exp <= now).
verify_token(token) ==
    IF token.key = "SECRET_KEY" /\ token.exp > now THEN token.sub ELSE 0

\* ------------------------------------------------------- database accessors
\* (variant: a lookup that compares the name column instead of the email)
get_user_by_email_name_column(email) == {u \in users : u.name = email}

get_user_by_email(email) == {u \in users : u.email = email}

get_user_by_id(user_id) == {u \in users : u.user_id = user_id}

\* get_connection() ... conn.close(): every accessor opens a connection as its
\* first statement and closes it as its last one before the return, with no
\* try / finally around the statements in between.  The number of open
\* connections when control leaves an accessor whose SQL statement raised
\* (raised = TRUE) or did not.
ConnsAfter(raised) == IF raised THEN conns + 1 ELSE conns

\* The INSERT of create_user raises sqlite3.IntegrityError (UNIQUE email).
create_user_raises(email) == \E u \in users : u.email = email

\* The UPDATE of update_user raises sqlite3.IntegrityError (UNIQUE email).
update_user_raises(user_id, email) ==
    /\ email # None
    /\ get_user_by_id(user_id) # {}
    /\ \E o \in users : o.user_id # user_id /\ o.email = email

\* The INSERT of create_workflow raises sqlite3.IntegrityError (PRIMARY KEY).
create_workflow_raises(workflow_id) == \E w \in workflows : w.workflow_id = workflow_id

\* INSERT INTO users: the row create_user adds (PRIMARY KEY user_id and
\* UNIQUE email are enforced by the table; a violation raises and adds nothing).
NewUserRow(user_id, email, password_hash, name, orcid) ==
    [user_id |-> user_id, email |-> email, password_hash |-> password_hash,
     name |-> name, orcid |-> orcid, created_at |-> now, updated_at |-> now]

create_user(email, password_hash, name, orcid) ==
    IF \E u \in users : u.email = email \/ u.user_id = nextUid
    THEN users
    ELSE users \cup {NewUserRow(nextUid, email, password_hash, name, orcid)}

\* (variant: an UPDATE that writes all four fields, NULL for the ones left out)
update_user_all_fields(user_id, name, email, orcid, password_hash) ==
    LET upd(u) ==
          [u EXCEPT !.updated_at = now, !.name = name, !.email = email,
                    !.orcid = IF TruthySeq(orcid) THEN orcid ELSE NoneSeq,
                    !.password_hash = password_hash]
    IN IF email # None /\ \E o \in users : o.user_id # user_id /\ o.email = email
                       /\ get_user_by_id(user_id) # {}
       THEN users
       ELSE {IF u.user_id = user_id THEN upd(u) ELSE u : u \in users}

\* UPDATE users SET updated_at = ?, ... WHERE user_id = ?  (a field passed as
\* None is left alone; an empty orcid is stored as NULL).  A new email held by
\* another row violates UNIQUE: the statement raises and changes nothing.
update_user(user_id, name, email, orcid, password_hash) ==
    LET upd(u) ==
          [u EXCEPT !.updated_at = now,
                    !.name = IF name # None THEN name ELSE @,
                    !.email = IF email # None THEN email ELSE @,
                    !.orcid = IF orcid # NoneSeq
                              THEN (IF TruthySeq(orcid) THEN orcid ELSE NoneSeq)
                              ELSE @,
                    !.password_hash = IF password_hash # None THEN password_hash ELSE @]
    IN IF email # None /\ \E o \in users : o.user_id # user_id /\ o.email = email
                       /\ get_user_by_id(user_id) # {}
       THEN users
       ELSE {IF u.user_id = user_id THEN upd(u) ELSE u : u \in users}

\* update_user's return value: cursor.rowcount > 0
update_user_updated(user_id) == get_user_by_id(user_id) # {}

\* (variant: only the user row is deleted, the workflows are left to the
\* FOREIGN KEY ... ON DELETE CASCADE, which SQLite does not enforce unless
\* PRAGMA foreign_keys is switched on)
delete_user_workflows_by_cascade(user_id) == workflows

\* DELETE FROM workflows WHERE user_id = ?; DELETE FROM users WHERE user_id = ?
delete_user_workflows(user_id) == {w \in workflows : w.user_id # user_id}

delete_user_users(user_id) == {u \in users : u.user_id # user_id}

\* delete_user's return value: cursor.rowcount > 0 of the second DELETE
delete_user_deleted(user_id) == \E u \in users : u.user_id = user_id

\* (variant: a check that never finds the email)
check_email_exists_never(email, exclude_user_id) == FALSE

\* check_email_exists(email, exclude_user_id)
check_email_exists(email, exclude_user_id) ==
    IF exclude_user_id # 0
    THEN \E u \in users : u.email = email /\ u.user_id # exclude_user_id
    ELSE \E u \in users : u.email = email

\* (variant: the SELECT without its WHERE clause)
get_user_workflows_all(user_id) == workflows

get_user_workflows(user_id) == {w \in workflows : w.user_id = user_id}

get_workflow_by_id(workflow_id) == {w \in workflows : w.workflow_id = workflow_id}

\* INSERT INTO workflows (..., status): results, error_message and
\* completed_at take their NULL defaults.  A workflow_id already in the table
\* violates PRIMARY KEY: the statement raises and adds nothing.
NewWorkflowRow(workflow_id, user_id, workflow, status) ==
    [workflow_id |-> workflow_id, user_id |-> user_id, name |-> workflow.name,
     description |-> workflow.description, species_name |-> workflow.species_name,
     ecosystem_type |-> workflow.ecosystem_type,
     geometry_type |-> workflow.geometry_type, geometry_wkt |-> workflow.geometry_wkt,
     parameters |-> workflow.parameters,
     status |-> status, results |-> None, error_message |-> None,
     created_at |-> now, updated_at |-> now, completed_at |-> NullTime]

create_workflow(workflow_id, user_id, workflow, status) ==
    IF get_workflow_by_id(workflow_id) # {}
    THEN workflows
    ELSE workflows \cup {NewWorkflowRow(workflow_id, user_id, workflow, status)}

\* (variant: an update that adds the results to the ones already stored)
update_workflow_status_appending(workflow_id, status, results, error) ==
    LET upd(w) ==
          [w EXCEPT !.status = status,
                    !.updated_at = now,
                    !.completed_at = IF status = "completed" THEN now ELSE @,
                    !.results = IF ~Truthy(results) THEN @
                                ELSE IF @ = None THEN results ELSE @ \o results,
                    !.error_message = IF Truthy(error) THEN error ELSE @]
    IN {IF w.workflow_id = workflow_id THEN upd(w) ELSE w : w \in workflows}

\* UPDATE workflows SET status = ?, updated_at = ? [, completed_at = ?]
\*   [, results = ?] [, error_message = ?] WHERE workflow_id = ?
update_workflow_status(workflow_id, status, results, error) ==
    LET upd(w) ==
          [w EXCEPT !.status = status,
                    !.updated_at = now,
                    !.completed_at = IF status = "completed" THEN now ELSE @,
                    !.results = IF Truthy(results) THEN results ELSE @,
                    !.error_message = IF Truthy(error) THEN error ELSE @]
    IN {IF w.workflow_id = workflow_id THEN upd(w) ELSE w : w \in workflows}

\* (variant: a soft delete that marks the row instead of removing it)
delete_workflow_soft(workflow_id) ==
    {IF w.workflow_id = workflow_id THEN [w EXCEPT !.status = "deleted"] ELSE w :
        w \in workflows}

\* DELETE FROM workflows WHERE workflow_id = ?
delete_workflow(workflow_id) == {w \in workflows : w.workflow_id # workflow_id}

\* ------------------------------------------------------------ initial state
\* init_db creates the tables only IF NOT EXISTS and migrates "existing
\* databases": the process starts on whatever the database file already
\* holds.  The start states are databases holding PreUsers signed-up users and
\* workflows they submitted earlier, which have not been reported on yet.
PreEmail == <<"a@x.org", "b@x.org", "c@x.org", "d@x.org">>

PreUser(i) ==
    [user_id |-> i,
     email |-> PreEmail[i],
     password_hash |-> hash_password("secret1"),
     name |-> "Ann", orcid |-> NoneSeq, created_at |-> 0, updated_at |-> 0]

PreWorkflow(workflow_id, user_id) ==
    [workflow_id |-> workflow_id, user_id |-> user_id, name |-> "sdm",
     description |-> "", species_name |-> "Trifolium arvense",
     ecosystem_type |-> "terrestrial", geometry_type |-> "polygon",
     geometry_wkt |-> "POLYGON", parameters |-> "{}",
     status |-> "submitted", results |-> None, error_message |-> None,
     created_at |-> 0, updated_at |-> 0, completed_at |-> NullTime]

\* app.storage.user: has_token tells whether the "token" key is present.
NoSession == [token |-> BadToken, user_id |-> 0, user_name |-> None, has_token |-> FALSE]
\* An /account page instance: user_id and the fields of the user row its
\* handlers read, as they were when the page was built.
PageUser(u) == [email |-> u.email, password_hash |-> u.password_hash]
NoPage == [open |-> FALSE, user_id |-> 0, user |-> PageUser(PreUser(1))]
\* A /workflows page instance: the ids of the rows it listed when it was built.
NoList == [open |-> FALSE, ids |-> {}]
NoResp == [op |-> "none", code |-> 0, detail |-> ""]
\* The scientific names read from static/eu-ias-directive.json, and the
\* species of the habitat directive, of which the page has none.
ias_species_names == {"Trifolium arvense", "Acacia saligna"}
habitat_species_names == {}
\* create_page.build_species_options: the option keys
build_species_options(selected) ==
    (IF \E i \in DOMAIN selected : selected[i] = "invasive_species"
     THEN ias_species_names ELSE {})
    \cup (IF \E i \in DOMAIN selected : selected[i] = "habitat"
          THEN habitat_species_names ELSE {})
\* A /create/terrestrial page instance: the directive checkboxes, the options
\* of the species select and its value.
NoCreatePage ==
    [open |-> FALSE, invasive_cb |-> FALSE, habitat_cb |-> FALSE,
     options |-> build_species_options(<<>>), species |-> None]

\* The owners of the workflows the database file holds at start-up.  The
\* users differ in id and email only, so "both rows of one user" and "one row
\* each for two users" are all the cases there are.
PreOwners == {[w \in WorkflowIds |-> 1], [w \in WorkflowIds |-> IF w = "w1" THEN 1 ELSE 2]}

Init ==
    /\ users = {PreUser(i) : i \in 1..PreUsers}
    /\ nextUid = PreUsers + 1
    /\ \E owner \in PreOwners :
         workflows = {PreWorkflow(w, owner[w]) : w \in WorkflowIds}
    /\ session = [b \in Browsers |-> NoSession]
    /\ acct = [b \in Browsers |-> NoPage]
    /\ wfpage = [b \in Browsers |-> NoList]
    /\ now = 0
    /\ resp = NoResp
    /\ conns = 0
    /\ cpage = [b \in Browsers |-> NoCreatePage]

\* datetime.utcnow(): time passes between requests.
Tick ==
    /\ now + TickHours <= MaxTime
    /\ now' = now + TickHours
    /\ UNCHANGED <<users, workflows, nextUid, session, acct, wfpage, resp, conns, cpage>>

\* ---------------------------------------------------------------- clients
\* The bearer tokens a client can present.  Tokens are stateless: the server
\* keeps no record of them, so a client may hold a token of any account that
\* was ever created (signup hands one out), still valid or expired, or a
\* string that SECRET_KEY did not sign.
ClientTokens ==
    {BadToken, ForgedToken} \cup
    {[sub |-> u, exp |-> e, key |-> "SECRET_KEY"] :
        u \in 1..(nextUid - 1), e \in {now, now + ACCESS_TOKEN_EXPIRE_HOURS}}

\* -------------------------------------------------------------- REST: auth
\* POST /api/auth/signup
api_signup(EmailSet, PasswordSet) ==
    \E email \in EmailSet, password \in PasswordSet, name \in Names :
       LET existing == get_user_by_email(email)
           args == [email |-> email, password |-> password, name |-> name]
       IN IF existing # {}
          THEN /\ resp' = [op |-> "api_signup", code |-> 400,
                           detail |-> "Email already registered", args |-> args]
               /\ UNCHANGED <<users, workflows, nextUid, session, acct, wfpage, now, conns, cpage>>
          ELSE LET token == create_access_token(nextUid)
                   table == create_user(email, hash_password(password), name, NoneSeq)
               IN /\ nextUid <= MaxUsers
                  /\ IF table = users
                     THEN \* sqlite3.IntegrityError from create_user
                          /\ resp' = [op |-> "api_signup", code |-> 500,
                                      detail |-> "Internal Server Error", args |-> args]
                          /\ UNCHANGED <<users, nextUid>>
                     ELSE /\ users' = table
                          /\ nextUid' = nextUid + 1
                          /\ resp' = [op |-> "api_signup", code |-> 200, detail |-> "",
                                      args |-> args, access_token |-> token,
                                      user_id |-> nextUid]
                  /\ conns' = ConnsAfter(create_user_raises(email))
                  /\ UNCHANGED <<workflows, session, acct, wfpage, now, cpage>>

\* POST /api/auth/login
api_login(EmailSet, PasswordSet) ==
    \E email \in EmailSet, password \in PasswordSet :
       LET db_user == get_user_by_email(email)
           args == [email |-> email, password |-> password]
       IN IF db_user = {} \/ \A u \in db_user : ~verify_password(password, u.password_hash)
          THEN /\ resp' = [op |-> "api_login", code |-> 401,
                           detail |-> "Invalid credentials", args |-> args]
               /\ UNCHANGED <<users, workflows, nextUid, session, acct, wfpage, now, conns, cpage>>
          ELSE \E u \in db_user :
                 LET token == create_access_token(u.user_id)
                 IN /\ resp' = [op |-> "api_login", code |-> 200, detail |-> "",
                                args |-> args, access_token |-> token,
                                user_id |-> u.user_id]
                    /\ UNCHANGED <<users, workflows, nextUid, session, acct, wfpage, now, conns, cpage>>

\* ------------------------------------------------------- REST: workflows
\* The WorkflowSubmit body sent by the create page.
Workflow(name, species_name, geometry_type, geometry_wkt) ==
    [name |-> name, description |-> "", species_name |-> species_name,
     ecosystem_type |-> "terrestrial", geometry_type |-> geometry_type,
     geometry_wkt |-> geometry_wkt, parameters |-> "{'time_period': '1981-2010'}"]

TheWorkflow == Workflow("sdm", "Trifolium arvense", "polygon", "POLYGON")

\* What the Workflow API answers to the multipart POST: an httpx.HTTPError, or
\* a response with a status code and a body (JSON or not; the JSON fields
\* workflow_id, id and status are None when absent).
Upstream(kind, status_code, json, workflow_id, id, status) ==
    [kind |-> kind, status_code |-> status_code, json |-> json,
     workflow_id |-> workflow_id, id |-> id, status |-> status]

\* Answers that accept the submission and name the new workflow IdSet ...
Accepted(IdSet) ==
    {Upstream("response", 200, TRUE, w, None, None) : w \in IdSet}
    \cup {Upstream("response", 201, TRUE, None, w, "running") : w \in IdSet}
    \cup {Upstream("response", 200, TRUE, w, None, "Pending") : w \in IdSet}

\* ... and answers that do not.
Refused ==
    {Upstream("HTTPError", 0, FALSE, None, None, None),
     Upstream("response", 500, FALSE, None, None, None),
     Upstream("response", 200, FALSE, None, None, None),
     Upstream("response", 200, TRUE, None, None, "submitted")}

\* (variant: the frame with the assignment of lines 222-226 executed)
NamesAtLine242_with_params ==
    {"workflow", "credentials", "user_id", "parameters", "time_period",
     "directive_types", "rocrate_context", "rocrate_zip", "data", "headers",
     "safe_headers", "params"}

\* The names bound in api_submit_workflow's frame when line 242 runs.  The
\* assignment "params = {...}" of lines 222-226 sits inside a string literal
\* and is never executed, and the module defines no global of that name.
NamesAtLine242 ==
    {"workflow", "credentials", "user_id", "parameters", "time_period",
     "directive_types", "rocrate_context", "rocrate_zip", "data", "headers",
     "safe_headers"}

Outcome(code, detail, table, posted, workflow_id, status) ==
    [code |-> code, detail |-> detail, table |-> table, posted |-> posted,
     workflow_id |-> workflow_id, status |-> status, raised |-> FALSE]

\* (variant: a handler that reaches the INSERT, on a table whose workflow_id
\* column is not a key)
SubmitOutcome_without_key(token, workflow, up) ==
    LET user_id == verify_token(token)
        workflow_id == IF Truthy(up.workflow_id) THEN up.workflow_id ELSE up.id
        status == IF up.status # None THEN up.status ELSE "submitted"
        accepted == up.kind = "response" /\ up.status_code < 300 /\ up.json
                    /\ Truthy(workflow_id)
    IN IF user_id = 0
       THEN Outcome(401, "Invalid or expired token", workflows, FALSE, None, None)
       ELSE IF ~accepted
       THEN Outcome(502, "Workflow API error", workflows, TRUE, None, None)
       ELSE Outcome(200, "",
                    workflows \cup {NewWorkflowRow(workflow_id, user_id, workflow, status)},
                    TRUE, workflow_id, status)

\* (variant: a handler that reaches the POST and, when the Workflow API does
\* not accept the submission, sends it again and records the row)
SubmitOutcome_resending(token, workflow, up) ==
    LET user_id == verify_token(token)
        workflow_id == IF Truthy(up.workflow_id) THEN up.workflow_id ELSE up.id
        accepted == up.kind = "response" /\ up.status_code < 300 /\ up.json
                    /\ Truthy(workflow_id)
        id == IF accepted THEN workflow_id ELSE "w3"
    IN IF user_id = 0
       THEN Outcome(401, "Invalid or expired token", workflows, FALSE, None, None)
       ELSE Outcome(200, "", create_workflow(id, user_id, workflow, "submitted"),
                    TRUE, id, "submitted")

\* api_submit_workflow: the response, the workflows table it leaves, and
\* whether the outbound POST was made.
SubmitOutcome(token, workflow, up) ==
    LET user_id == verify_token(token)
        workflow_id == IF Truthy(up.workflow_id) THEN up.workflow_id ELSE up.id
        status == IF up.status # None THEN up.status ELSE "submitted"
    IN IF user_id = 0
       THEN Outcome(401, "Invalid or expired token", workflows, FALSE, None, None)
       ELSE IF "params" \notin NamesAtLine242
       THEN \* print(f"Params: {params}") raises NameError
            Outcome(500, "Internal Server Error", workflows, FALSE, None, None)
       ELSE IF up.kind = "HTTPError"
       THEN Outcome(502, "Workflow API error", workflows, TRUE, None, None)
       ELSE IF up.status_code >= 300
       THEN Outcome(502, "Workflow API error", workflows, TRUE, None, None)
       ELSE IF ~up.json
       THEN Outcome(502, "Workflow API returned invalid JSON", workflows, TRUE, None, None)
       ELSE IF ~Truthy(workflow_id)
       THEN Outcome(502, "Workflow API did not return workflow_id", workflows, TRUE,
                    None, None)
       ELSE IF create_workflow_raises(workflow_id)
       THEN \* sqlite3.IntegrityError from create_workflow
            [Outcome(500, "Internal Server Error", workflows, TRUE, None, None)
               EXCEPT !.raised = TRUE]
       ELSE Outcome(200, "", create_workflow(workflow_id, user_id, workflow, status),
                    TRUE, workflow_id, status)

\* POST /api/workflows/submit.  The only await of the handler is the POST of
\* line 249; a request leaves the handler at line 186 (401) or at line 242
\* (NameError) before it, so no request is ever suspended there and the
\* handler runs as one step.
api_submit_workflow(UpSet) ==
    \E token \in ClientTokens, up \in UpSet :
       LET out == SubmitOutcome(token, TheWorkflow, up)
       IN /\ workflows' = out.table
          /\ resp' = [op |-> "api_submit_workflow", code |-> out.code,
                      detail |-> out.detail, token |-> token, upstream |-> up,
                      posted |-> out.posted, workflow_id |-> out.workflow_id,
                      status |-> out.status]
          /\ conns' = ConnsAfter(out.raised)
          /\ UNCHANGED <<users, nextUid, session, acct, wfpage, now, cpage>>

\* The webhook bodies tried: WorkflowWebhook(workflow_id, status, results,
\* error_message).
Webhook(workflow_id, status, results, error_message) ==
    [workflow_id |-> workflow_id, status |-> status, results |-> results,
     error_message |-> error_message]

WebhookBodies(IdSet) ==
    {Webhook(w, "completed", r, None) : w \in IdSet, r \in {None, EmptyDict, AucDict}}
    \cup {Webhook(w, "failed", None, e) : w \in IdSet, e \in {None, "", "E1"}}
    \cup {Webhook(w, st, None, None) : w \in IdSet, st \in {"running", "Succeeded"}}

\* The call is the very call that was served last.
Repeated(workflow_id, webhook_data) ==
    /\ resp.op = "workflow_webhook"
    /\ resp.workflow_id = workflow_id
    /\ resp.webhook_data = webhook_data

\* (variant: a receiver that updates the row named in the body, not the one
\* named in the URL path)
workflow_webhook_body_id(PathSet, BodySet) ==
    \E workflow_id \in PathSet, webhook_data \in BodySet :
       /\ workflows' =
            IF webhook_data.status = "completed"
            THEN update_workflow_status(webhook_data.workflow_id, "completed",
                                        str(webhook_data.results), None)
            ELSE IF webhook_data.status = "failed"
            THEN update_workflow_status(webhook_data.workflow_id, "failed", None,
                                        webhook_data.error_message)
            ELSE workflows
       /\ resp' = [op |-> "workflow_webhook", code |-> 200,
                   detail |-> "webhook processed", workflow_id |-> workflow_id,
                   webhook_data |-> webhook_data,
                   repeated |-> Repeated(workflow_id, webhook_data)]
       /\ UNCHANGED <<users, nextUid, session, acct, wfpage, now, conns, cpage>>

\* (variant: a receiver that stores whatever status the body carries)
workflow_webhook_any_status(PathSet, BodySet) ==
    \E workflow_id \in PathSet, webhook_data \in BodySet :
       /\ workflows' = update_workflow_status(workflow_id, webhook_data.status,
                                              None, webhook_data.error_message)
       /\ resp' = [op |-> "workflow_webhook", code |-> 200,
                   detail |-> "webhook processed", workflow_id |-> workflow_id,
                   webhook_data |-> webhook_data,
                   repeated |-> Repeated(workflow_id, webhook_data)]
       /\ UNCHANGED <<users, nextUid, session, acct, wfpage, now, conns, cpage>>

\* POST /api/workflows/webhook/{workflow_id}
workflow_webhook(PathSet, BodySet) ==
    \E workflow_id \in PathSet, webhook_data \in BodySet :
       /\ workflows' =
            IF webhook_data.status = "completed"
            THEN update_workflow_status(workflow_id, "completed",
                                        str(webhook_data.results), None)
            ELSE IF webhook_data.status = "failed"
            THEN update_workflow_status(workflow_id, "failed", None,
                                        webhook_data.error_message)
            ELSE workflows
       /\ resp' = [op |-> "workflow_webhook", code |-> 200,
                   detail |-> "webhook processed", workflow_id |-> workflow_id,
                   webhook_data |-> webhook_data,
                   repeated |-> Repeated(workflow_id, webhook_data)]
       /\ UNCHANGED <<users, nextUid, session, acct, wfpage, now, conns, cpage>>

\* GET /api/workflows
api_get_workflows ==
    \E token \in ClientTokens :
       LET user_id == verify_token(token)
       IN /\ resp' = IF user_id = 0
                     THEN [op |-> "api_get_workflows", code |-> 401,
                           detail |-> "Invalid or expired token", token |-> token]
                     ELSE [op |-> "api_get_workflows", code |-> 200, detail |-> "",
                           token |-> token, workflows |-> get_user_workflows(user_id)]
          /\ UNCHANGED <<users, workflows, nextUid, session, acct, wfpage, now, conns, cpage>>

\* (variant: a delete that does not compare the owner with the caller)
DeleteOutcome_any_owner(token, workflow_id) ==
    LET user_id == verify_token(token)
        workflow == get_workflow_by_id(workflow_id)
    IN IF user_id = 0
       THEN Outcome(401, "Invalid or expired token", workflows, FALSE, workflow_id, None)
       ELSE IF workflow = {}
       THEN Outcome(404, "Workflow not found", workflows, FALSE, workflow_id, None)
       ELSE Outcome(200, "", delete_workflow(workflow_id), FALSE, workflow_id, "deleted")

\* api_delete_workflow: the response and the workflows table it leaves.
DeleteOutcome(token, workflow_id) ==
    LET user_id == verify_token(token)
        workflow == get_workflow_by_id(workflow_id)
    IN IF user_id = 0
       THEN Outcome(401, "Invalid or expired token", workflows, FALSE, workflow_id, None)
       ELSE IF workflow = {} \/ \A w \in workflow : w.user_id # user_id
       THEN Outcome(404, "Workflow not found", workflows, FALSE, workflow_id, None)
       ELSE Outcome(200, "", delete_workflow(workflow_id), FALSE, workflow_id, "deleted")

\* DELETE /api/workflows/{workflow_id}
api_delete_workflow(IdSet) ==
    \E token \in ClientTokens, workflow_id \in IdSet :
       LET out == DeleteOutcome(token, workflow_id)
       IN /\ workflows' = out.table
          /\ resp' = [op |-> "api_delete_workflow", code |-> out.code,
                      detail |-> out.detail, token |-> token,
                      workflow_id |-> workflow_id, status |-> out.status]
          /\ UNCHANGED <<users, nextUid, session, acct, wfpage, now, conns, cpage>>

\* ------------------------------------------------- calls of the accessors
\* One call of an accessor of database.py, from get_connection() to the
\* return or to the exception that leaves it.
Called(op, raised, args) ==
    [op |-> op, code |-> 0, detail |-> IF raised THEN "IntegrityError" ELSE "",
     raised |-> raised, args |-> args]

call_create_user(EmailSet) ==
    \E email \in EmailSet :
       LET raised == create_user_raises(email)
       IN /\ conns < MaxConns
          /\ raised \/ nextUid <= MaxUsers
          /\ users' = create_user(email, hash_password("secret1"), "Ann", NoneSeq)
          /\ nextUid' = IF raised THEN nextUid ELSE nextUid + 1
          /\ conns' = ConnsAfter(raised)
          /\ resp' = Called("create_user", raised, [email |-> email])
          /\ UNCHANGED <<workflows, session, acct, wfpage, now, cpage>>

\* The keyword arguments of a call of update_user; None (NoneSeq for the
\* ORCID text) is an argument left out.
UpdateArgs(name, email, orcid, password_hash) ==
    [name |-> name, email |-> email, orcid |-> orcid, password_hash |-> password_hash]

call_update_user(UserSet, ArgSet) ==
    \E user_id \in UserSet, a \in ArgSet :
       LET raised == update_user_raises(user_id, a.email)
       IN /\ conns < MaxConns
          /\ users' = update_user(user_id, a.name, a.email, a.orcid, a.password_hash)
          /\ conns' = ConnsAfter(raised)
          /\ resp' = [op |-> "update_user", code |-> 0,
                      detail |-> IF raised THEN "IntegrityError" ELSE "",
                      raised |-> raised, args |-> [user_id |-> user_id, fields |-> a],
                      updated |-> ~raised /\ update_user_updated(user_id)]
          /\ UNCHANGED <<workflows, nextUid, session, acct, wfpage, now, cpage>>

call_create_workflow(IdSet, UserSet) ==
    \E workflow_id \in IdSet, user_id \in UserSet :
       LET raised == create_workflow_raises(workflow_id)
       IN /\ conns < MaxConns
          /\ workflows' = create_workflow(workflow_id, user_id, TheWorkflow, "submitted")
          /\ conns' = ConnsAfter(raised)
          /\ resp' = Called("create_workflow", raised,
                            [workflow_id |-> workflow_id, user_id |-> user_id])
          /\ UNCHANGED <<users, nextUid, session, acct, wfpage, now, cpage>>

call_delete_workflow(IdSet) ==
    \E workflow_id \in IdSet :
       /\ workflows' = delete_workflow(workflow_id)
       /\ conns' = ConnsAfter(FALSE)
       /\ resp' = Called("delete_workflow", FALSE, [workflow_id |-> workflow_id])
       /\ UNCHANGED <<users, nextUid, session, acct, wfpage, now, cpage>>

call_delete_user(UserSet) ==
    \E user_id \in UserSet :
       /\ workflows' = delete_user_workflows(user_id)
       /\ users' = delete_user_users(user_id)
       /\ conns' = ConnsAfter(FALSE)
       /\ resp' = Called("delete_user", FALSE, [user_id |-> user_id])
       /\ UNCHANGED <<nextUid, session, acct, wfpage, now, cpage>>

\* ------------------------------------------------------- pages: login/signup
\* (variant: a check that trusts the user_id kept in the session storage)
check_auth_stored_user_id(b) == session[b].user_id

\* check_auth(): the subject of the session's token, or None (0)
check_auth(b) ==
    IF ~session[b].has_token THEN 0 ELSE verify_token(session[b].token)

Notify(op, detail, args) == [op |-> op, code |-> 0, detail |-> detail, args |-> args]

\* app.storage.user after a successful login or signup
LoggedIn(token, user_id, name) ==
    [token |-> token, user_id |-> user_id, user_name |-> name, has_token |-> TRUE]

\* login_page.do_login
do_login(B, EmailSet, PasswordSet) ==
    \E b \in B, email \in EmailSet, password \in PasswordSet :
       LET user == get_user_by_email(email)
           args == [b |-> b, email |-> email, password |-> password]
       IN IF email = "" \/ password = ""
          THEN /\ resp' = Notify("do_login", "Please fill in all fields", args)
               /\ UNCHANGED <<users, workflows, nextUid, session, acct, wfpage, now, conns, cpage>>
          ELSE IF user = {} \/ \A u \in user : ~verify_password(password, u.password_hash)
          THEN /\ resp' = Notify("do_login", "Invalid email or password", args)
               /\ UNCHANGED <<users, workflows, nextUid, session, acct, wfpage, now, conns, cpage>>
          ELSE \E u \in user :
                 LET token == create_access_token(u.user_id)
                 IN /\ session' = [session EXCEPT ![b] = LoggedIn(token, u.user_id, u.name)]
                    /\ resp' = Notify("do_login", "navigate:/workflows", args)
                    /\ UNCHANGED <<users, workflows, nextUid, acct, wfpage, now, conns, cpage>>

\* The signup forms tried: well-formed ones, and for each field of the form
\* the ways it can be left empty or wrong.
Form(name, email, password, confirm, orcid) ==
    [name |-> name, email |-> email, password |-> password, confirm |-> confirm,
     orcid |-> orcid]

SignupForms ==
    {Form("Ann", e, p, p, <<>>) : e \in Emails, p \in Passwords}
    \cup {Form("Ann", "a@x.org", "secret1", "secret1", <<" ">> \o OrcidX \o <<" ">>)}
    \cup {Form("", "a@x.org", "secret1", "secret1", <<>>),
          Form("Ann", "", "secret1", "secret1", <<>>),
          Form("Ann", "b@x.org", "", "secret1", <<>>),
          Form("Ann", "b@x.org", "secret1", "", <<>>)}
    \cup {Form("Ann", e, "secret1", "secret2", <<>>) : e \in Emails}
    \cup {Form("Ann", "a@x.org", ShortPassword, ShortPassword, <<>>)}
    \cup {Form("Ann", "a@x.org", "secret1", "secret1", o) : o \in {OrcidLowerX, Grp}}
    \cup {Form("Ann", "a@x.org", "secret1", "secret1", <<" ">>)}

\* The password forms tried on the account page.
PwForm(current_pw, new_pw, confirm_pw) ==
    [current_pw |-> current_pw, new_pw |-> new_pw, confirm_pw |-> confirm_pw]

PasswordForms ==
    {PwForm("secret1", "secret2", "secret2"), PwForm("secret2", "secret1", "secret1"),
     PwForm("", "secret2", "secret2"), PwForm("secret1", "secret2", "secret1"),
     PwForm("secret1", ShortPassword, ShortPassword)}

\* The profile forms tried on the account page.
ProfileForm(name, email, orcid) == [name |-> name, email |-> email, orcid |-> orcid]

ProfileForms ==
    {ProfileForm("Ann", e, <<>>) : e \in Emails}
    \cup {ProfileForm("", "a@x.org", <<>>), ProfileForm("Ann", "", <<>>),
          ProfileForm("Ann", "a@x.org", OrcidLowerX)}

\* signup_page.do_signup
do_signup(B, FormSet) ==
    \E b \in B, form \in FormSet :
       LET name == form.name
           email == form.email
           password == form.password
           confirm == form.confirm
           orcid == OrcidField(form.orcid)
           existing == get_user_by_email(email)
           args == [b |-> b, form |-> form]
           Reject(detail) ==
               /\ resp' = Notify("do_signup", detail, args)
               /\ UNCHANGED <<users, workflows, nextUid, session, acct, wfpage, now, conns, cpage>>
       IN IF name = "" \/ email = "" \/ password = "" \/ confirm = ""
          THEN Reject("Please fill in all required fields")
          ELSE IF password # confirm
          THEN Reject("Passwords do not match")
          ELSE IF Len(password) < MIN_PASSWORD_LEN
          THEN Reject("Password must be at least 6 characters")
          ELSE IF TruthySeq(orcid) /\ ~orcid_pattern(orcid)
          THEN Reject("Invalid ORCID format. Use: 0000-0000-0000-0000")
          ELSE IF existing # {}
          THEN Reject("Email already registered")
          ELSE LET token == create_access_token(nextUid)
                   table == create_user(email, hash_password(password), name, orcid)
               IN /\ nextUid <= MaxUsers
                  /\ IF table = users
                     THEN \* sqlite3.IntegrityError from create_user
                          /\ resp' = Notify("do_signup", "exception", args)
                          /\ UNCHANGED <<users, nextUid, session>>
                     ELSE /\ users' = table
                          /\ nextUid' = nextUid + 1
                          /\ session' = [session EXCEPT ![b] = LoggedIn(token, nextUid, name)]
                          /\ resp' = Notify("do_signup", "navigate:/workflows", args)
                  /\ conns' = ConnsAfter(create_user_raises(email))
                  /\ UNCHANGED <<workflows, acct, wfpage, now, cpage>>

\* do_logout
do_logout(B) ==
    \E b \in B :
       /\ session' = [session EXCEPT ![b] = NoSession]
       /\ resp' = Notify("do_logout", "navigate:/login", [b |-> b])
       /\ UNCHANGED <<users, workflows, nextUid, acct, wfpage, now, conns, cpage>>

\* ------------------------------------------------------------ page: /account
\* account_page: renders the settings for the session's user; the handlers of
\* the page close over user_id and the user row read when the page was built.
account_page(B) ==
    \E b \in B :
       LET user_id == check_auth(b)
           user == get_user_by_id(user_id)
       IN IF user_id = 0
          THEN /\ resp' = Notify("account_page", "redirect:/login", [b |-> b])
               /\ UNCHANGED <<users, workflows, nextUid, session, acct, wfpage, now, conns, cpage>>
          ELSE IF user = {}
          THEN /\ resp' = Notify("account_page", "User not found", [b |-> b])
               /\ UNCHANGED <<users, workflows, nextUid, session, acct, wfpage, now, conns, cpage>>
          ELSE \E u \in user :
                 /\ acct' = [acct EXCEPT ![b] = [open |-> TRUE, user_id |-> user_id, user |-> PageUser(u)]]
                 /\ resp' = Notify("account_page", "Account Settings", [b |-> b])
                 /\ UNCHANGED <<users, workflows, nextUid, session, wfpage, now, conns, cpage>>

\* account_page.save_profile (the name and email typed are taken as stripped)
save_profile(B, FormSet) ==
    \E b \in B, form \in FormSet :
       LET user_id == acct[b].user_id
           name == form.name
           email == form.email
           orcid == OrcidField(form.orcid)
           args == [b |-> b, form |-> form]
           Reject(detail) ==
               /\ resp' = Notify("save_profile", detail, args)
               /\ UNCHANGED <<users, workflows, nextUid, session, acct, wfpage, now, conns, cpage>>
       IN /\ acct[b].open
          /\ IF name = "" \/ email = ""
             THEN Reject("Name and email are required")
             ELSE IF check_email_exists(email, user_id)
             THEN Reject("Email is already in use")
             ELSE IF TruthySeq(orcid) /\ ~orcid_pattern(orcid)
             THEN Reject("Invalid ORCID format")
             ELSE IF update_user_raises(user_id, email)
             THEN \* sqlite3.IntegrityError from update_user
                  /\ resp' = Notify("save_profile", "exception", args)
                  /\ conns' = ConnsAfter(TRUE)
                  /\ UNCHANGED <<users, workflows, nextUid, session, acct, wfpage, now, cpage>>
             ELSE /\ users' = update_user(user_id, name, email,
                                          IF TruthySeq(orcid) THEN orcid ELSE <<>>, None)
                  /\ session' = [session EXCEPT ![b].user_name = name]
                  /\ resp' = Notify("save_profile", "Profile updated successfully", args)
                  /\ UNCHANGED <<workflows, nextUid, acct, wfpage, now, conns, cpage>>

\* account_page.change_password
change_password(B, FormSet) ==
    \E b \in B, form \in FormSet :
       LET user_id == acct[b].user_id
           user == acct[b].user
           current_pw == form.current_pw
           new_pw == form.new_pw
           confirm_pw == form.confirm_pw
           args == [b |-> b, form |-> form]
           Reject(detail) ==
               /\ resp' = Notify("change_password", detail, args)
               /\ UNCHANGED <<users, workflows, nextUid, session, acct, wfpage, now, conns, cpage>>
       IN /\ acct[b].open
          /\ IF current_pw = "" \/ new_pw = "" \/ confirm_pw = ""
             THEN Reject("Please fill in all password fields")
             ELSE IF ~verify_password(current_pw, user.password_hash)
             THEN Reject("Current password is incorrect")
             ELSE IF new_pw # confirm_pw
             THEN Reject("New passwords do not match")
             ELSE IF Len(new_pw) < MIN_PASSWORD_LEN
             THEN Reject("Password must be at least 6 characters")
             ELSE /\ users' = update_user(user_id, None, None, NoneSeq, hash_password(new_pw))
                  /\ resp' = Notify("change_password", "Password changed successfully", args)
                  /\ UNCHANGED <<workflows, nextUid, session, acct, wfpage, now, conns, cpage>>

\* account_page.confirm_delete.do_delete
do_delete(B, EmailSet) ==
    \E b \in B, confirm_email \in EmailSet :
       LET user_id == acct[b].user_id
           user == acct[b].user
           args == [b |-> b, confirm_email |-> confirm_email, user_id |-> user_id]
       IN /\ acct[b].open
          /\ IF confirm_email # user.email
             THEN /\ resp' = Notify("do_delete", "Email doesn't match", args)
                  /\ UNCHANGED <<users, workflows, nextUid, session, acct, wfpage, now, conns, cpage>>
             ELSE /\ workflows' = delete_user_workflows(user_id)
                  /\ users' = delete_user_users(user_id)
                  /\ session' = [session EXCEPT ![b] = NoSession]
                  /\ acct' = [acct EXCEPT ![b] = NoPage]
                  /\ resp' = [op |-> "do_delete", code |-> 0, detail |-> "Account deleted",
                              args |-> args, deleted |-> delete_user_deleted(user_id)]
                  /\ UNCHANGED <<nextUid, wfpage, now, conns, cpage>>

\* ---------------------------------------------------------- page: /workflows
\* The bearer token a page handler sends: app.storage.user.get("token"), which
\* is None (no verifiable token) when the session holds none.
SessionToken(b) == IF session[b].has_token THEN session[b].token ELSE BadToken

\* workflows_page: lists the session user's workflows
workflows_page(B) ==
    \E b \in B :
       LET user_id == check_auth(b)
           listed == get_user_workflows(user_id)
       IN IF user_id = 0
          THEN /\ resp' = Notify("workflows_page", "redirect:/login", [b |-> b])
               /\ UNCHANGED <<users, workflows, nextUid, session, acct, wfpage, now, conns, cpage>>
          ELSE /\ wfpage' = [wfpage EXCEPT ![b] =
                               [open |-> TRUE, ids |-> {w.workflow_id : w \in listed}]]
               /\ resp' = [op |-> "workflows_page", code |-> 0, detail |-> "Your Workflows",
                           args |-> [b |-> b], workflows |-> listed]
               /\ UNCHANGED <<users, workflows, nextUid, session, acct, now, conns, cpage>>

\* workflows_page.confirm_delete.do_delete: sends the DELETE request and
\* reports, whatever the answer was; the navigation rebuilds the page.
wf_do_delete(B) ==
    \E b \in B :
       \E workflow_id \in wfpage[b].ids :
          LET out == DeleteOutcome(SessionToken(b), workflow_id)
          IN /\ wfpage[b].open
             /\ workflows' = out.table
             /\ wfpage' = [wfpage EXCEPT ![b] = NoList]
             /\ resp' = [op |-> "wf_do_delete", code |-> 0, detail |-> "Workflow deleted",
                         args |-> [b |-> b, workflow_id |-> workflow_id],
                         api_code |-> out.code]
             /\ UNCHANGED <<users, nextUid, session, acct, now, conns, cpage>>

\* ------------------------------------------------- page: /results/{workflow_id}
results_page(B, IdSet) ==
    \E b \in B, workflow_id \in IdSet :
       LET user_id == check_auth(b)
           workflow == get_workflow_by_id(workflow_id)
           view == IF user_id = 0 THEN "redirect:/login"
                   ELSE IF workflow = {} \/ \A w \in workflow : w.user_id # user_id
                   THEN "Workflow not found"
                   ELSE "Analysis Results"
       IN /\ resp' = [op |-> "results_page", code |-> 0, detail |-> view,
                      args |-> [b |-> b, workflow_id |-> workflow_id],
                      shown |-> IF view = "Analysis Results" THEN workflow ELSE {}]
          /\ UNCHANGED <<users, workflows, nextUid, session, acct, wfpage, now, conns, cpage>>

\* ---------------------------------------------------- page: /select-workflow
\* select_workflow_page: the choice of ecosystems, static content
select_workflow_page(B) ==
    \E b \in B :
       /\ resp' = Notify("select_workflow_page",
                         IF check_auth(b) = 0 THEN "redirect:/login"
                         ELSE "Select Workflow Type", [b |-> b])
       /\ UNCHANGED <<users, workflows, nextUid, session, acct, wfpage, now, conns, cpage>>

\* ------------------------------------------------------------------ page: /
root_page(B) ==
    \E b \in B :
       /\ resp' = Notify("root_page",
                         IF check_auth(b) # 0 THEN "redirect:/workflows"
                         ELSE "redirect:/login", [b |-> b])
       /\ UNCHANGED <<users, workflows, nextUid, session, acct, wfpage, now, conns, cpage>>

\* --------------------------------------------------- page: /create/terrestrial
\* create_page: a fresh page has no directive checked, no option in the
\* species list and no species selected.
create_page(B) ==
    \E b \in B :
       IF check_auth(b) = 0
       THEN /\ resp' = Notify("create_page", "redirect:/login", [b |-> b])
            /\ UNCHANGED <<users, workflows, nextUid, session, acct, wfpage, now, conns, cpage>>
       ELSE /\ cpage' = [cpage EXCEPT ![b] = [NoCreatePage EXCEPT !.open = TRUE]]
            /\ resp' = Notify("create_page", "Create New Workflow", [b |-> b])
            /\ UNCHANGED <<users, workflows, nextUid, session, acct, wfpage, now, conns>>

\* The directives whose checkbox is checked, in the order the handlers list
\* them.
selected_directives(page) ==
    (IF page.invasive_cb THEN <<"invasive_species">> ELSE <<>>)
    \o (IF page.habitat_cb THEN <<"habitat">> ELSE <<>>)

\* (variant: the options are rebuilt but the selected species is kept)
update_species_options_keeping(page) ==
    [page EXCEPT !.options = build_species_options(selected_directives(page))]

\* create_page.update_species_options
update_species_options(page) ==
    LET options == build_species_options(selected_directives(page))
    IN [page EXCEPT !.options = options,
                    !.species = IF @ \notin options THEN None ELSE @]

\* invasive_cb / habitat_cb change their value (the habitat checkbox is
\* rendered disabled, its handler is registered all the same).
toggle_directive(B, DirectiveSet) ==
    \E b \in B, d \in DirectiveSet :
       LET toggled == IF d = "invasive_species"
                      THEN [cpage[b] EXCEPT !.invasive_cb = ~@]
                      ELSE [cpage[b] EXCEPT !.habitat_cb = ~@]
       IN /\ cpage[b].open
          /\ cpage' = [cpage EXCEPT ![b] = update_species_options(toggled)]
          /\ resp' = Notify("toggle_directive", d, [b |-> b])
          /\ UNCHANGED <<users, workflows, nextUid, session, acct, wfpage, now, conns>>

\* species_select changes its value: the browser names one of the options the
\* select holds.
select_species(B, SpeciesSet) ==
    \E b \in B, species \in SpeciesSet :
       /\ cpage[b].open
       /\ species \in cpage[b].options
       /\ cpage' = [cpage EXCEPT ![b].species = species]
       /\ resp' = Notify("select_species", species, [b |-> b])
       /\ UNCHANGED <<users, workflows, nextUid, session, acct, wfpage, now, conns>>

\* The values submit_workflow reads from the widgets that no handler couples:
\* the name, the time periods checked, and the geometry the map holds.
SubmitForm(name, periods, geo_type, geo_wkt) ==
    [name |-> name, periods |-> periods, geo_type |-> geo_type, geo_wkt |-> geo_wkt]

SubmitForms ==
    {SubmitForm("sdm", <<"1981-2010">>, "polygon", "POLYGON"),
     SubmitForm("", <<"1981-2010">>, "polygon", "POLYGON"),
     SubmitForm("sdm", <<>>, "polygon", "POLYGON"),
     SubmitForm("sdm", <<"1981-2010">>, None, None),
     SubmitForm("sdm", <<"1981-2010">>, "null", "POLYGON"),
     SubmitForm("sdm", <<"1981-2010">>, "polygon", None),
     SubmitForm("sdm", <<"1981-2010">>, "polygon", "null")}

\* create_page.submit_workflow: validates the form, then POSTs it to
\* /api/workflows/submit with the session's token; a 200 answer navigates to
\* /workflows.
submit_workflow(B, FormSet, UpSet) ==
    \E b \in B, form \in FormSet, up \in UpSet :
       LET page == cpage[b]
           directive_values == selected_directives(page)
           out == SubmitOutcome(SessionToken(b),
                                Workflow(form.name, page.species, form.geo_type,
                                         form.geo_wkt), up)
           args == [b |-> b, form |-> form, page |-> page]
           Warn(detail) ==
               /\ resp' = Notify("submit_workflow", detail, args)
               /\ UNCHANGED <<users, workflows, nextUid, session, acct, wfpage, now, conns, cpage>>
       IN /\ page.open
          /\ IF form.name = ""
             THEN Warn("Please enter a workflow name")
             ELSE IF directive_values = <<>>
             THEN Warn("Please choose an EU directive")
             ELSE IF ~Truthy(page.species)
             THEN Warn("Please select a species")
             ELSE IF form.periods = <<>>
             THEN Warn("Please select a time period")
             ELSE IF ~Truthy(form.geo_type) \/ form.geo_type = "null"
             THEN Warn("Please draw an area on the map")
             ELSE IF ~Truthy(form.geo_wkt) \/ form.geo_wkt = "null"
             THEN Warn("Geometry WKT not available")
             ELSE /\ workflows' = out.table
                  /\ cpage' = IF out.code = 200 THEN [cpage EXCEPT ![b] = NoCreatePage]
                              ELSE cpage
                  /\ resp' = [op |-> "submit_workflow", code |-> 0,
                              detail |-> IF out.code = 200 THEN "Workflow submitted!"
                                         ELSE "Error", args |-> args,
                              upstream |-> up, api_code |-> out.code]
                  /\ conns' = ConnsAfter(out.raised)
                  /\ UNCHANGED <<users, nextUid, session, acct, wfpage, now>>

\* ===================================================================== claims
\* The identifier an upstream answer assigns (field workflow_id, else id), and
\* whether the answer is a success carrying one.
AssignedId(up) == IF Truthy(up.workflow_id) THEN up.workflow_id ELSE up.id

UpstreamSuccess(up) ==
    /\ up.kind = "response"
    /\ up.status_code < 300
    /\ up.json
    /\ Truthy(AssignedId(up))

\* The step just taken was an authenticated submit-workflow request that the
\* Workflow API would answer with a success.
AuthenticatedAcceptedSubmit ==
    /\ resp.op = "api_submit_workflow"
    /\ verify_token(resp.token) # 0
    /\ UpstreamSuccess(resp.upstream)

\* C1: an authenticated submit-workflow request whose upstream call succeeds
\* with identifier w leaves exactly one workflow row w, owned by the caller,
\* and answers with workflow_id = w.
C1_SubmitRecordsReturnedId ==
    AuthenticatedAcceptedSubmit =>
        LET w == AssignedId(resp.upstream)
            rows == {r \in workflows : r.workflow_id = w}
        IN /\ resp.code = 200
           /\ resp.workflow_id = w
           /\ Cardinality(rows) = 1
           /\ \A r \in rows : r.user_id = verify_token(resp.token)

\* ---------------------------------------------------------------------- C2
IsSignup(r) == r.op \in {"api_signup", "do_signup"}

SignupEmail(r) == IF r.op = "api_signup" THEN r.args.email ELSE r.args.form.email

\* The signup form passes the checks that do_signup makes before it looks the
\* email up.
FormChecksPass(f) ==
    /\ f.name # "" /\ f.email # "" /\ f.password # "" /\ f.confirm # ""
    /\ f.password = f.confirm
    /\ Len(f.password) >= 6
    /\ f.orcid = <<>> \/ strip(f.orcid) = <<>> \/ orcid_pattern(strip(f.orcid))

\* A signup for an email that a user row already holds creates no row and
\* issues no token.
DuplicateSignupChangesNothing ==
    /\ users' = users
    /\ nextUid' = nextUid
    /\ session' = session
    /\ "access_token" \notin DOMAIN resp'

\* C2 (as stated): a signup, REST or UI, whose email is the email of an
\* existing user creates no user row, issues no token and reports "Email
\* already registered" (HTTP 400 on the REST endpoint).
C2_DuplicateSignupReportsRegistered ==
    [][(IsSignup(resp') /\ \E u \in users : u.email = SignupEmail(resp'))
         => /\ DuplicateSignupChangesNothing
            /\ resp'.detail = "Email already registered"
            /\ resp'.op = "api_signup" => resp'.code = 400]_vars

\* C2 (amended): such a signup creates no user row and issues no token; the
\* REST endpoint reports 400 "Email already registered", and so does the UI
\* form when its other fields pass their checks; a form that fails one of
\* them is rejected with that check's message instead.
C2_DuplicateSignupRejected ==
    [][(IsSignup(resp') /\ \E u \in users : u.email = SignupEmail(resp'))
         => /\ DuplicateSignupChangesNothing
            /\ resp'.op = "api_signup" =>
                 resp'.code = 400 /\ resp'.detail = "Email already registered"
            /\ resp'.op = "do_signup" =>
                 IF FormChecksPass(resp'.args.form)
                 THEN resp'.detail = "Email already registered"
                 ELSE resp'.detail \in
                        {"Please fill in all required fields", "Passwords do not match",
                         "Password must be at least 6 characters",
                         "Invalid ORCID format. Use: 0000-0000-0000-0000"}]_vars

\* A well-formed UI signup for a registered email has just been rejected.
C2_Witness ==
    /\ resp.op = "do_signup"
    /\ FormChecksPass(resp.args.form)
    /\ \E u \in users : u.email = resp.args.form.email
    /\ resp.detail = "Email already registered"

\* ---------------------------------------------------------------------- C3
\* The users whose email and currently stored password are the ones supplied.
Matching(email, password) ==
    {u \in users : u.email = email /\ u.password_hash = hash_password(password)}

\* C3: api_login answers 401 "Invalid credentials" without a token when the
\* email is unknown or the password is not the one stored for it, and
\* otherwise a token whose subject is that user; do_login stores a session
\* token only on a match.
C3_LoginRejectsWrongPassword ==
    [][/\ resp'.op = "api_login" =>
            LET m == Matching(resp'.args.email, resp'.args.password)
            IN IF m = {}
               THEN /\ resp'.code = 401
                    /\ resp'.detail = "Invalid credentials"
                    /\ "access_token" \notin DOMAIN resp'
               ELSE /\ resp'.code = 200
                    /\ \E u \in m : /\ verify_token(resp'.access_token) = u.user_id
                                    /\ resp'.user_id = u.user_id
       /\ resp'.op = "do_login" =>
            LET m == Matching(resp'.args.email, resp'.args.password)
                b == resp'.args.b
            IN IF m = {}
               THEN session' = session
               ELSE /\ session'[b].has_token
                    /\ \E u \in m : verify_token(session'[b].token) = u.user_id]_vars

\* A login with a superseded password for an existing account was refused.
C3_Witness ==
    /\ resp.op = "api_login"
    /\ resp.code = 401
    /\ resp.args.password = "secret1"
    /\ \E u \in users : /\ u.email = resp.args.email
                        /\ u.password_hash = hash_password("secret2")

\* ---------------------------------------------------------------------- C4
\* C4: api_get_workflows with a valid token for user u returns exactly the
\* rows whose user_id = u; results_page shows the details of a workflow only
\* when the row exists and belongs to the session's user, and tells that
\* user "Workflow not found" otherwise.
C4_VisibleOnlyToOwner ==
    /\ (resp.op = "api_get_workflows" /\ verify_token(resp.token) # 0) =>
          /\ resp.code = 200
          /\ resp.workflows = {w \in workflows : w.user_id = verify_token(resp.token)}
    /\ resp.op = "results_page" =>
          LET user_id == check_auth(resp.args.b)
              owned == {w \in workflows : /\ w.workflow_id = resp.args.workflow_id
                                          /\ w.user_id = user_id}
          IN /\ resp.detail = "Analysis Results" => user_id # 0 /\ owned # {}
             /\ resp.shown \subseteq owned
             /\ user_id # 0 =>
                  resp.detail = IF owned # {} THEN "Analysis Results"
                                ELSE "Workflow not found"

\* A user who owns a workflow has just listed the workflows while another
\* user's row is in the table.
C4_Witness ==
    /\ resp.op = "api_get_workflows"
    /\ resp.code = 200
    /\ resp.workflows # {}
    /\ \E w \in workflows : w.user_id # verify_token(resp.token)

\* ---------------------------------------------------------------------- C5
\* C5: when the account page's do_delete calls delete_user(u), afterwards no
\* user row and no workflow row with user_id = u exists, every other user row
\* and every workflow of another user is unchanged, and delete_user returns
\* true iff a user row u existed.
C5_DeleteUserCascades ==
    [][(resp'.op = "do_delete" /\ resp'.detail = "Account deleted") =>
         LET u == resp'.args.user_id
         IN /\ users' = {x \in users : x.user_id # u}
            /\ workflows' = {w \in workflows : w.user_id # u}
            /\ resp'.deleted = (\E x \in users : x.user_id = u)]_vars

\* An account has just been deleted and took one of the two workflows with it.
C5_Witness ==
    /\ resp.op = "do_delete"
    /\ resp.detail = "Account deleted"
    /\ resp.deleted
    /\ Cardinality(workflows) = 1
    /\ \A w \in workflows : w.user_id # resp.args.user_id

\* ---------------------------------------------------------------------- C6
\* The step just taken was a webhook call with the given status for a
\* workflow that exists.
WebhookFor(status) ==
    /\ resp.op = "workflow_webhook"
    /\ resp.webhook_data.status = status
    /\ \E w \in workflows : w.workflow_id = resp.workflow_id

\* The value of the results column that holds the results a call carries: the
\* text of the dictionary, and NULL when the call carries none.
CarriedResults(results) == IF results = None THEN None ELSE str(results)

\* C6: after a webhook call with status "completed" for an existing workflow
\* the row is completed, has a completion timestamp, and its result payload is
\* the results the call carried, an absent results field included.
C6_CompletedSetsTimestampAndResults ==
    WebhookFor("completed") =>
        \A w \in workflows :
           w.workflow_id = resp.workflow_id =>
              /\ w.status = "completed"
              /\ w.completed_at # NullTime
              /\ w.results = CarriedResults(resp.webhook_data.results)

\* ---------------------------------------------------------------------- C7
\* The value of the error_message column for the message a call carries
\* (NULL when the message is absent or empty).
CarriedError(error_message) == IF Truthy(error_message) THEN error_message ELSE None

\* C7: after a webhook call with status "failed" for an existing workflow the
\* row is failed, its error_message is the one the call carried, and it has
\* no completion timestamp, whatever the row held before.
C7_FailedSetsErrorWithoutTimestamp ==
    WebhookFor("failed") =>
        \A w \in workflows :
           w.workflow_id = resp.workflow_id =>
              /\ w.status = "failed"
              /\ w.error_message = CarriedError(resp.webhook_data.error_message)
              /\ w.completed_at = NullTime

\* ---------------------------------------------------------------------- C8
\* C8: the row that an accepted submission creates has status "submitted",
\* whatever the upstream response body contains.
C8_SubmittedRowHasStatusSubmitted ==
    AuthenticatedAcceptedSubmit =>
        \E r \in workflows : /\ r.workflow_id = AssignedId(resp.upstream)
                             /\ r.status = "submitted"

\* ---------------------------------------------------------------------- C9
SameOutcomeFields(w, v) ==
    /\ w.status = v.status
    /\ w.results = v.results
    /\ w.error_message = v.error_message
    /\ w.completed_at = v.completed_at

\* C9: every handler other than the webhook receiver leaves status, results,
\* error_message and completed_at of every workflow row that it does not
\* delete unchanged.
C9_OnlyWebhookMutatesOutcome ==
    [][resp'.op # "workflow_webhook" =>
         \A w \in workflows : \A v \in workflows' :
            w.workflow_id = v.workflow_id => SameOutcomeFields(w, v)]_vars

\* A workflow has just been deleted while a row that was reported completed
\* is kept.
C9_Witness ==
    /\ resp.op = "api_delete_workflow"
    /\ resp.code = 200
    /\ \E w \in workflows : w.status = "completed" /\ w.results # None

\* --------------------------------------------------------------------- C10
StatusValues == {"submitted", "running", "completed", "failed"}

\* C10: the status of every workflow row is one of submitted, running,
\* completed, failed.
C10_StatusInEnumeration == \A w \in workflows : w.status \in StatusValues

\* A webhook body whose status is outside the enumeration has just been
\* received for an existing workflow.
C10_Witness ==
    /\ resp.op = "workflow_webhook"
    /\ resp.webhook_data.status \notin StatusValues
    /\ \E w \in workflows : w.workflow_id = resp.workflow_id

\* --------------------------------------------------------------------- C11
\* The moves of the status of a row that the lifecycle submitted -> running ->
\* {completed, failed} allows: none, a step along it, or the jump to a
\* terminal status that the external signal for it causes.
LifecycleStep(from, to) ==
    \/ from = to
    \/ from = "submitted" /\ to \in {"running", "completed", "failed"}
    \/ from = "running" /\ to \in {"completed", "failed"}

\* C11: over any sequence of webhook calls the status of a row moves only
\* along submitted -> running -> {completed, failed}; completed and failed
\* are terminal.
C11_StatusFollowsLifecycle ==
    [][\A w \in workflows : \A v \in workflows' :
          w.workflow_id = v.workflow_id => LifecycleStep(w.status, v.status)]_vars

\* --------------------------------------------------------------------- C12
\* C12: when the outbound POST of an authenticated submit-workflow request
\* raises an HTTP error, is answered with a status >= 300, with a body that is
\* not JSON, or with JSON that carries no workflow_id / id, api_submit_workflow
\* responds 502 with the upstream message and leaves the workflows table
\* unchanged.
C12_UpstreamFailureIs502 ==
    [][(/\ resp'.op = "api_submit_workflow"
        /\ verify_token(resp'.token) # 0
        /\ ~UpstreamSuccess(resp'.upstream))
         => /\ resp'.code = 502
            /\ resp'.detail \in {"Workflow API error", "Workflow API returned invalid JSON",
                                 "Workflow API did not return workflow_id"}
            /\ workflows' = workflows]_vars

\* --------------------------------------------------------------------- C13
\* A bearer token that does not verify: not signed with SECRET_KEY (which
\* covers a malformed string), or past its expiry.
RejectedToken(token) == token.key # "SECRET_KEY" \/ token.exp <= now

\* C13: submit-workflow, list-workflows and delete-workflow called with a
\* bearer token that does not verify respond 401, make no outbound call and
\* leave the users and workflows tables unchanged.
C13_BadTokenIs401 ==
    [][(/\ resp'.op \in {"api_submit_workflow", "api_get_workflows", "api_delete_workflow"}
        /\ RejectedToken(resp'.token))
         => /\ resp'.code = 401
            /\ resp'.detail = "Invalid or expired token"
            /\ users' = users
            /\ workflows' = workflows
            /\ resp'.op = "api_submit_workflow" => ~resp'.posted
            /\ resp'.op = "api_get_workflows" => "workflows" \notin DOMAIN resp']_vars

\* The owner of a workflow has just asked for its deletion with an expired
\* token, and was refused.
C13_Witness ==
    /\ resp.op = "api_delete_workflow"
    /\ resp.code = 401
    /\ resp.token.key = "SECRET_KEY"
    /\ resp.token.exp <= now
    /\ \E w \in workflows : /\ w.workflow_id = resp.workflow_id
                            /\ w.user_id = resp.token.sub

\* --------------------------------------------------------------------- C14
\* C14: every workflow row's user_id is the user_id of an existing user row.
C14_ReferentialIntegrity ==
    \A w \in workflows : \E u \in users : u.user_id = w.user_id

\* A submit-workflow request has just been made with a token that is still
\* valid although the account it was issued to has been deleted.
C14_Witness ==
    /\ resp.op = "api_submit_workflow"
    /\ resp.token.key = "SECRET_KEY"
    /\ resp.token.exp > now
    /\ UpstreamSuccess(resp.upstream)
    /\ \A u \in users : u.user_id # resp.token.sub

\* --------------------------------------------------------------------- C15
EmailsUnique == \A u \in users : \A v \in users : u.email = v.email => u = v

\* C15: no two user rows ever have the same email, and a profile edit to an
\* email held by another user is rejected and changes no user row.
C15_EmailsStayUnique ==
    /\ []EmailsUnique
    /\ [][(/\ resp'.op = "save_profile"
           /\ \E o \in users : /\ o.user_id # acct[resp'.args.b].user_id
                               /\ o.email = resp'.args.form.email)
            => /\ users' = users
               /\ resp'.detail = IF resp'.args.form.name = ""
                                 THEN "Name and email are required"
                                 ELSE "Email is already in use"]_vars

\* A user has just tried to take over the email of another user.
C15_Witness ==
    /\ resp.op = "save_profile"
    /\ resp.detail = "Email is already in use"
    /\ \E u \in users : \E o \in users :
          /\ u.user_id = acct[resp.args.b].user_id
          /\ o.user_id # u.user_id
          /\ o.email = resp.args.form.email

\* --------------------------------------------------------------------- C16
\* The REST operations other than delete-workflow.
OtherRestOps ==
    {"api_signup", "api_login", "api_submit_workflow", "workflow_webhook",
     "api_get_workflows"}

\* C16: api_delete_workflow(w) with a valid token for user u deletes the row
\* w and answers status deleted iff w exists and belongs to u; otherwise it
\* answers 404 "Workflow not found" and changes no workflow row.  No other
\* REST operation removes a workflow row.
C16_DeleteOnlyByOwner ==
    [][/\ (resp'.op = "api_delete_workflow" /\ ~RejectedToken(resp'.token)) =>
            LET u == resp'.token.sub
                w == resp'.workflow_id
            IN IF \E r \in workflows : r.workflow_id = w /\ r.user_id = u
               THEN /\ workflows' = {r \in workflows : r.workflow_id # w}
                    /\ resp'.code = 200
                    /\ resp'.status = "deleted"
               ELSE /\ workflows' = workflows
                    /\ resp'.code = 404
                    /\ resp'.detail = "Workflow not found"
       /\ resp'.op \in OtherRestOps =>
            \A r \in workflows : \E v \in workflows' : v.workflow_id = r.workflow_id]_vars

\* A user has just asked for the deletion of another user's workflow and was
\* told that it does not exist.
C16_Witness ==
    /\ resp.op = "api_delete_workflow"
    /\ resp.code = 404
    /\ ~RejectedToken(resp.token)
    /\ \E r \in workflows : /\ r.workflow_id = resp.workflow_id
                            /\ r.user_id # resp.token.sub

\* --------------------------------------------------------------------- C17
\* C17: a webhook call addressed to workflow id w (the id in the URL path)
\* changes at most the row w, inserts and removes no row and changes no user
\* row; it changes nothing when no row w exists or when the status of the
\* body is neither completed nor failed; and it always answers "webhook
\* processed".
C17_WebhookTouchesOnlyItsRow ==
    [][resp'.op = "workflow_webhook" =>
         LET w == resp'.workflow_id
         IN /\ resp'.code = 200
            /\ resp'.detail = "webhook processed"
            /\ users' = users
            /\ {r.workflow_id : r \in workflows'} = {r.workflow_id : r \in workflows}
            /\ {r \in workflows' : r.workflow_id # w} = {r \in workflows : r.workflow_id # w}
            /\ (\A r \in workflows : r.workflow_id # w) => workflows' = workflows
            /\ resp'.webhook_data.status \notin {"completed", "failed"} =>
                 workflows' = workflows]_vars

\* A completed notification whose body names an existing workflow has just
\* arrived at the URL of a workflow that does not exist.
C17_Witness ==
    /\ resp.op = "workflow_webhook"
    /\ resp.webhook_data.status = "completed"
    /\ resp.webhook_data.workflow_id # resp.workflow_id
    /\ \A r \in workflows : r.workflow_id # resp.workflow_id
    /\ \E r \in workflows : r.workflow_id = resp.webhook_data.workflow_id

\* --------------------------------------------------------------------- C18
\* A session's token verifies to the user it was issued to as long as it has
\* not expired, and to nobody afterwards.
SessionTokensVerify ==
    \A b \in Browsers :
       session[b].has_token =>
          check_auth(b) = IF now < session[b].token.exp THEN session[b].user_id ELSE 0

\* C18: a token that create_access_token issues for user u verifies to u at
\* any time before its expiry, which is 24 hours after it was issued;
\* verify_token returns None for a token past its expiry, for a token signed
\* with another key, and for a string that is not a token.
C18_TokensSelfVerifying ==
    /\ []SessionTokensVerify
    /\ [][(now' = now /\ resp'.op = "do_login" /\ resp'.detail = "navigate:/workflows") =>
            LET token == session'[resp'.args.b].token
            IN /\ token.exp = now + 24
               /\ \E u \in users : /\ u.email = resp'.args.email
                                   /\ u.user_id = verify_token(token)]_vars
    /\ [][(now' = now /\ resp'.op = "api_get_workflows") =>
            resp'.code = IF RejectedToken(resp'.token) THEN 401 ELSE 200]_vars

\* A page has just been asked for with a session token that was issued 24
\* hours or more ago, and the visitor was sent to the login page.
C18_Witness ==
    /\ resp.op = "workflows_page"
    /\ resp.detail = "redirect:/login"
    /\ session[resp.args.b].has_token
    /\ session[resp.args.b].token.key = "SECRET_KEY"
    /\ session[resp.args.b].token.exp = now

\* --------------------------------------------------------------------- C19
\* C19: every database accessor closes the connection it opened before
\* control leaves it, on every path, the paths on which its SQL statement
\* raises included: no connection is ever left open.
C19_NoConnectionLeftOpen == conns = 0

\* --------------------------------------------------------------------- C20
\* The ORCID typed into the form, without the blanks around it.
TypedOrcid(f) == strip(f.orcid)

\* dddd-dddd-dddd-ddd[d|X]
OrcidFormat(o) ==
    /\ Len(o) = 19
    /\ \A i \in 1..19 :
          IF i \in {5, 10, 15} THEN o[i] = "-"
          ELSE IF i = 19 THEN IsDigit(o[i]) \/ o[i] = "X"
          ELSE IsDigit(o[i])

\* Every condition under which a signup form may create an account.
SignupAllowed(f) ==
    /\ f.name # "" /\ f.email # "" /\ f.password # "" /\ f.confirm # ""
    /\ f.password = f.confirm
    /\ Len(f.password) >= 6
    /\ TypedOrcid(f) # <<>> => OrcidFormat(TypedOrcid(f))
    /\ ~ \E u \in users : u.email = f.email

NegativeNotifications ==
    {"Please fill in all required fields", "Passwords do not match",
     "Password must be at least 6 characters",
     "Invalid ORCID format. Use: 0000-0000-0000-0000", "Email already registered"}

\* C20: do_signup creates a user row and stores a session token only if name,
\* email, password and confirmation are all non-empty, the password equals
\* the confirmation and has at least 6 characters, the ORCID (when given)
\* matches dddd-dddd-dddd-ddd[d|X], and the email is not yet registered; in
\* every other case it emits a negative notification and leaves the users
\* table and the session storage unchanged.
C20_SignupValidated ==
    [][resp'.op = "do_signup" =>
         LET f == resp'.args.form
             b == resp'.args.b
         IN IF SignupAllowed(f)
            THEN /\ resp'.detail = "navigate:/workflows"
                 /\ \E row \in users' \ users :
                       /\ users' = users \cup {row}
                       /\ row.email = f.email /\ row.name = f.name
                       /\ verify_password(f.password, row.password_hash)
                       /\ row.orcid = IF f.orcid = <<>> THEN NoneSeq ELSE TypedOrcid(f)
                       /\ session'[b].has_token
                       /\ session'[b].user_id = row.user_id
                       /\ session'[b].token.sub = row.user_id
                       /\ session'[b].token.key = "SECRET_KEY"
            ELSE /\ resp'.detail \in NegativeNotifications
                 /\ users' = users
                 /\ session' = session]_vars

\* An account has just been created from a form that carries an ORCID.
C20_Witness ==
    /\ resp.op = "do_signup"
    /\ resp.detail = "navigate:/workflows"
    /\ TypedOrcid(resp.args.form) # <<>>
    /\ OrcidFormat(TypedOrcid(resp.args.form))
    /\ \E u \in users : /\ u.email = resp.args.form.email
                        /\ u.orcid = TypedOrcid(resp.args.form)
                        /\ session[resp.args.b].user_id = u.user_id

\* --------------------------------------------------------------------- C21
IsSubmit(r) == r.op \in {"api_submit_workflow", "submit_workflow"} /\ "upstream" \in DOMAIN r

\* The workflow identifiers that the step adds to the table.
NewWorkflowIds ==
    {w.workflow_id : w \in workflows'} \ {w.workflow_id : w \in workflows}

\* C21: a submit-workflow request sends at most one POST to the Workflow API
\* (none unless the caller is authenticated); a submission that the Workflow
\* API does not accept leaves the workflows table as it was, and no later step
\* of the system creates its row: a row with a new identifier appears only in
\* the submit step whose own upstream answer accepted it under that identifier.
C21_NoRetry ==
    [][/\ (IsSubmit(resp') /\ ~UpstreamSuccess(resp'.upstream)) => workflows' = workflows
       /\ (resp'.op = "api_submit_workflow" /\ resp'.posted) => verify_token(resp'.token) # 0
       /\ NewWorkflowIds # {} =>
             /\ IsSubmit(resp')
             /\ UpstreamSuccess(resp'.upstream)
             /\ NewWorkflowIds = {AssignedId(resp'.upstream)}]_vars

\* An authenticated submission that the Workflow API would refuse has just
\* been answered: no POST went out and the table holds no row but the ones
\* it started with.
C21_Witness ==
    /\ resp.op = "api_submit_workflow"
    /\ verify_token(resp.token) # 0
    /\ ~UpstreamSuccess(resp.upstream)
    /\ ~resp.posted
    /\ \A w \in workflows : w.workflow_id \in WorkflowIds

\* --------------------------------------------------------------------- C22
\* The webhook just served notified completed or failed for a workflow that
\* has no row yet.
EarlyNotification ==
    /\ resp.op = "workflow_webhook"
    /\ resp.webhook_data.status \in {"completed", "failed"}
    /\ get_workflow_by_id(resp.workflow_id) = {}

\* C22: when the completed or failed webhook for workflow w is delivered
\* before the submission of w has inserted its row, then once the submit
\* handler has finished too the row for w carries the notified status, not
\* the status recorded at submission.
C22_EarlyNotificationKept ==
    [][(/\ EarlyNotification
        /\ resp'.op = "api_submit_workflow"
        /\ verify_token(resp'.token) # 0
        /\ UpstreamSuccess(resp'.upstream)
        /\ AssignedId(resp'.upstream) = resp.workflow_id)
         => \E w \in workflows' : /\ w.workflow_id = resp.workflow_id
                                  /\ w.status = resp.webhook_data.status]_vars

\* --------------------------------------------------------------------- C23
\* C23: change_password accepts the current password typed exactly when it
\* matches the password hash stored for the user at the moment of the call,
\* however many password changes were made from the same open account page
\* before: the present password is accepted, a superseded one is rejected.
C23_ChangeChecksStoredPassword ==
    [][(/\ resp'.op = "change_password"
        /\ resp'.args.form.current_pw # ""
        /\ resp'.args.form.new_pw # ""
        /\ resp'.args.form.confirm_pw # "")
         => \A u \in get_user_by_id(acct[resp'.args.b].user_id) :
               (resp'.detail = "Current password is incorrect")
                  <=> ~verify_password(resp'.args.form.current_pw, u.password_hash)]_vars

\* --------------------------------------------------------------------- C24
\* C24: every workflow row whose status is completed has a completion
\* timestamp and a result payload, and every row that has a completion
\* timestamp has status completed.
C24_CompletedIffTimestamp ==
    \A w \in workflows :
       /\ w.status = "completed" => (w.completed_at # NullTime /\ w.results # None)
       /\ w.completed_at # NullTime => w.status = "completed"

\* --------------------------------------------------------------------- C25
\* C25: delivering the same webhook call (same path id, status, results,
\* error_message) a second time in a row leaves status, results and
\* error_message of every workflow row as the first delivery left them; no
\* row is added or removed; only the timestamps may change.
C25_WebhookIdempotent ==
    [][(resp'.op = "workflow_webhook" /\ resp'.repeated)
         => /\ {w.workflow_id : w \in workflows'} = {w.workflow_id : w \in workflows}
            /\ \A w \in workflows : \A v \in workflows' :
                  v.workflow_id = w.workflow_id =>
                     /\ v.status = w.status
                     /\ v.results = w.results
                     /\ v.error_message = w.error_message]_vars

\* A completed notification with results has just been delivered for the
\* second time in a row, at a later hour than the row was created, and the
\* row carries it.
C25_Witness ==
    /\ resp.op = "workflow_webhook"
    /\ resp.repeated
    /\ resp.webhook_data.status = "completed"
    /\ resp.webhook_data.results = AucDict
    /\ now > 0
    /\ \E w \in workflows : /\ w.workflow_id = resp.workflow_id
                            /\ w.status = "completed"
                            /\ w.results = str(AucDict)
                            /\ w.completed_at = now

\* --------------------------------------------------------------------- C26
WorkflowIdsUnique ==
    \A w \in workflows : \A v \in workflows : w.workflow_id = v.workflow_id => w = v

\* C26: no two workflow rows share a workflow_id, and a submission for which
\* the Workflow API returns an identifier that the table already holds leaves
\* the row of that identifier (owner, metadata, status, results) unchanged.
C26_IdsUniqueRowsKept ==
    /\ []WorkflowIdsUnique
    /\ [][(IsSubmit(resp') /\ UpstreamSuccess(resp'.upstream))
            => \A w \in get_workflow_by_id(AssignedId(resp'.upstream)) :
                  w \in workflows']_vars

\* An authenticated submission has just been answered whose upstream answer
\* names a workflow that another user owns, after a webhook reported that
\* workflow completed; the row is as it was.
C26_Witness ==
    /\ resp.op = "api_submit_workflow"
    /\ verify_token(resp.token) # 0
    /\ UpstreamSuccess(resp.upstream)
    /\ \E w \in get_workflow_by_id(AssignedId(resp.upstream)) :
          /\ w.user_id # verify_token(resp.token)
          /\ w.status = "completed"

\* --------------------------------------------------------------------- C29
\* The species that belong to the directives checked on a create page.
SpeciesOfChecked(page) ==
    (IF page.invasive_cb THEN ias_species_names ELSE {})
    \cup (IF page.habitat_cb THEN habitat_species_names ELSE {})

SelectionConsistent ==
    \A b \in Browsers :
       cpage[b].open =>
          (cpage[b].species = None \/ cpage[b].species \in SpeciesOfChecked(cpage[b]))

\* Everything a submission needs is there: a name, a checked directive, a
\* species of a checked directive, a time period, and a drawn geometry.
SubmissionComplete(f, page) ==
    /\ f.name # ""
    /\ page.invasive_cb \/ page.habitat_cb
    /\ page.species \in SpeciesOfChecked(page)
    /\ f.periods # <<>>
    /\ f.geo_type \notin {None, "", "null"}
    /\ f.geo_wkt \notin {None, "", "null"}

SubmitWarnings ==
    {"Please enter a workflow name", "Please choose an EU directive",
     "Please select a species", "Please select a time period",
     "Please draw an area on the map", "Geometry WKT not available"}

C30_DeletedOnlyWhenRemoved ==
    [][(resp'.op = "wf_do_delete" /\ resp'.detail = "Workflow deleted")
         => /\ resp'.api_code = 200
            /\ get_workflow_by_id(resp'.args.workflow_id) # {}
            /\ \A w \in workflows' : w.workflow_id # resp'.args.workflow_id]_vars

\* --------------------------------------------------------------------- C28
\* The row that update_user leaves for user row u when called with fields a.
Updated(u, a) ==
    [u EXCEPT !.updated_at = now,
              !.name = IF a.name # None THEN a.name ELSE @,
              !.email = IF a.email # None THEN a.email ELSE @,
              !.orcid = IF a.orcid = NoneSeq THEN @
                        ELSE IF a.orcid = <<>> THEN NoneSeq ELSE a.orcid,
              !.password_hash = IF a.password_hash # None THEN a.password_hash ELSE @]

\* The call sets exactly the fields given, refreshes updated_at of the row,
\* touches no other row, and returns true.
UpdatesExactlyGiven(user_id, a) ==
    /\ resp'.updated
    /\ users' = {IF u.user_id = user_id THEN Updated(u, a) ELSE u : u \in users}

\* The new email is the email of another user.
EmailTaken(user_id, a) ==
    a.email # None /\ \E o \in users : o.user_id # user_id /\ o.email = a.email

\* C28 (as stated): for an existing user, update_user sets exactly the
\* fields among name, email, orcid, password_hash that are passed non-None
\* (an empty orcid clears the stored ORCID), always refreshes updated_at,
\* leaves every other field and every other row unchanged, and returns true;
\* for a user_id that does not exist it changes nothing and returns false.
C28_UpdateSetsExactlyGiven ==
    [][(now' = now /\ resp'.op = "update_user") =>
         LET user_id == resp'.args.user_id
             a == resp'.args.fields
         IN IF get_user_by_id(user_id) # {}
            THEN UpdatesExactlyGiven(user_id, a)
            ELSE users' = users /\ ~resp'.updated]_vars

\* C28 (amended): the same, unless the email passed is the email of another
\* user: then the statement raises sqlite3.IntegrityError, update_user
\* returns nothing and no row is changed.
C28_UpdateSetsGivenOrRaises ==
    [][(now' = now /\ resp'.op = "update_user") =>
         LET user_id == resp'.args.user_id
             a == resp'.args.fields
         IN IF get_user_by_id(user_id) = {}
            THEN users' = users /\ ~resp'.updated /\ ~resp'.raised
            ELSE IF EmailTaken(user_id, a)
            THEN resp'.raised /\ users' = users
            ELSE ~resp'.raised /\ UpdatesExactlyGiven(user_id, a)]_vars

\* All four fields of a user have just been set at a later hour than the row
\* was created, the stored ORCID having been cleared before.
C28_Witness ==
    /\ resp.op = "update_user"
    /\ resp.updated
    /\ resp.args.fields.orcid = <<>>
    /\ now > 0
    /\ \E u \in get_user_by_id(resp.args.user_id) :
          /\ u.updated_at = now
          /\ u.created_at = 0
          /\ u.orcid = NoneSeq
          /\ u.name = "Bob"
          /\ u.email = "c@x.org"
          /\ u.password_hash = hash_password("secret2")

\* --------------------------------------------------------------------- C27
\* The session storage of browser b holds a token that verify_token accepts.
LiveSession(b) == session[b].has_token /\ verify_token(session[b].token) # 0

ProtectedPages ==
    {"select_workflow_page", "account_page", "create_page", "workflows_page",
     "results_page"}

\* What a protected page shows when it does not redirect.
PageContents ==
    {"Select Workflow Type", "Account Settings", "User not found",
     "Create New Workflow", "Your Workflows", "Analysis Results",
     "Workflow not found"}

\* The step is a request for a protected page or for "/".
PageRequest(ops) == now' = now /\ resp'.op \in ops

\* The step is do_logout, or the do_delete of the account page that deleted
\* the account.
SessionCleared ==
    /\ now' = now
    /\ \/ resp'.op = "do_logout"
       \/ resp'.op = "do_delete" /\ resp'.detail = "Account deleted"

\* C27: a protected page (/select-workflow, /account, /create/terrestrial,
\* /workflows, /results/{id}) renders content when the session holds a token
\* that verify_token accepts and otherwise redirects to /login and builds no
\* page; "/" redirects to /workflows when the token is valid and to /login
\* otherwise; do_logout and an account deletion leave the session without a
\* token, and a session without a token gets one only by a successful login
\* or signup in that browser.
C27_PagesRequireLiveSession ==
    [][/\ PageRequest(ProtectedPages) =>
            IF LiveSession(resp'.args.b)
            THEN resp'.detail \in PageContents
            ELSE /\ resp'.detail = "redirect:/login"
                 /\ UNCHANGED <<acct, wfpage, cpage>>
       /\ PageRequest({"root_page"}) =>
            resp'.detail = IF LiveSession(resp'.args.b) THEN "redirect:/workflows"
                           ELSE "redirect:/login"
       /\ SessionCleared => ~session'[resp'.args.b].has_token
       /\ \A b \in Browsers :
            (~session[b].has_token /\ session'[b].has_token) =>
               /\ resp'.op \in {"do_login", "do_signup"}
               /\ resp'.detail = "navigate:/workflows"
               /\ resp'.args.b = b]_vars

\* Browser b1, in which an account page had been built, was logged out and
\* its request for /workflows was redirected, while the session of b2 is live.
C27_Witness ==
    /\ acct["b1"].open
    /\ ~session["b1"].has_token
    /\ resp.op = "workflows_page"
    /\ resp.args.b = "b1"
    /\ resp.detail = "redirect:/login"
    /\ LiveSession("b2")

\* ------------------------------------------------------------ specifications
\* The inputs of each specification are named sets of values.
OneBrowser == {"b1"}
OtherBrowser == {"b2"}
LoginPasswords == Passwords \cup {""}
StoredPassword == {"secret1"}
FewEmails == {"a@x.org"}

\* Accounts and sessions: every handler that reads or writes the users table.
NextAuth ==
    \/ api_signup(Emails, Passwords)
    \/ api_login(Emails, Passwords)
    \/ do_login(OneBrowser, Emails, LoginPasswords)
    \/ do_signup(OneBrowser, SignupForms)
    \/ do_logout(OneBrowser)
    \/ account_page(OneBrowser)
    \/ save_profile(OneBrowser, ProfileForms)
    \/ change_password(OneBrowser, PasswordForms)
    \/ do_delete(OneBrowser, Emails)

SpecAuth == Init /\ [][NextAuth]_vars

\* Account deletion, with the account page open in two browsers.
MovedProfile == {ProfileForm("Ann", "c@x.org", <<>>)}

NextAccount ==
    \/ do_login(Browsers, Emails, StoredPassword)
    \/ account_page(Browsers)
    \/ save_profile(OtherBrowser, MovedProfile)
    \/ do_delete(Browsers, Emails)

SpecAccount == Init /\ [][NextAccount]_vars

\* Workflows: every REST handler that reads or writes the workflows table and
\* the results page, with the logins that decide who may see a row.
AcceptedAnswers == Accepted({"w1", "w3"})
Answers == Refused \cup AcceptedAnswers
WebhookPaths == {"w1", "w3"}
FlowWebhookBodies == WebhookBodies({"w1"})

NextFlow ==
    \/ do_login(OneBrowser, Emails, StoredPassword)
    \/ do_logout(OneBrowser)
    \/ api_submit_workflow(Answers)
    \/ workflow_webhook(WebhookPaths, FlowWebhookBodies)
    \/ api_get_workflows
    \/ api_delete_workflow(WorkflowIds)
    \/ results_page(OneBrowser, WorkflowIds)

SpecFlow == Init /\ [][NextFlow]_vars

\* Tokens over time: logins, the passing of time, and requests that present a
\* token to the REST interface or through a page.
NextToken ==
    \/ Tick
    \/ do_login(OneBrowser, FewEmails, StoredPassword)
    \/ api_login(FewEmails, StoredPassword)
    \/ do_logout(OneBrowser)
    \/ workflows_page(OneBrowser)
    \/ api_get_workflows

SpecToken == Init /\ [][NextToken]_vars

\* Webhook deliveries over time.
NextHook ==
    \/ Tick
    \/ workflow_webhook(WebhookPaths, FlowWebhookBodies)
    \/ api_get_workflows

SpecHook == Init /\ [][NextHook]_vars

\* The accessors of database.py, each called on its own.
FewUserIds == {1, 2}
DbWorkflowIds == {"w1", "w3"}
EmailUpdates == {UpdateArgs(None, e, NoneSeq, None) : e \in Emails}

NextDb ==
    \/ call_create_user(Emails)
    \/ call_update_user(FewUserIds, EmailUpdates)
    \/ call_create_workflow(DbWorkflowIds, FewUserIds)
    \/ call_delete_workflow(DbWorkflowIds)
    \/ call_delete_user(FewUserIds)

SpecDb == Init /\ [][NextDb]_vars

\* update_user called on its own over time, for a user that exists and one
\* that does not, with each argument given alone, none, and all together.
SomeUserIds == {2, 9}
UpdateCalls ==
    {UpdateArgs(None, None, NoneSeq, None),
     UpdateArgs("Bob", None, NoneSeq, None),
     UpdateArgs(None, "a@x.org", NoneSeq, None),
     UpdateArgs(None, "c@x.org", NoneSeq, None),
     UpdateArgs(None, None, <<>>, None),
     UpdateArgs(None, None, OrcidX, None),
     UpdateArgs(None, None, NoneSeq, hash_password("secret2")),
     UpdateArgs("Bob", "c@x.org", OrcidX, hash_password("secret2"))}

NextUpdate ==
    \/ Tick
    \/ call_update_user(SomeUserIds, UpdateCalls)

SpecUpdate == Init /\ [][NextUpdate]_vars

\* Every handler of the application, each with a few inputs.
FewSignupForms == {Form("Ann", "a@x.org", "secret1", "secret1", <<>>)}
FewProfileForms == {ProfileForm("Ann", "a@x.org", <<>>)}
FewPasswordForms == {PwForm("secret1", "secret1", "secret1")}
FewForms == {SubmitForm("sdm", <<"1981-2010">>, "polygon", "POLYGON")}
InvasiveOnly == {"invasive_species"}
Directives == {"invasive_species", "habitat"}
OneSpecies == {"Trifolium arvense"}
FewAnswers == {Upstream("response", 200, TRUE, "w3", None, "Pending")}
FewWebhookBodies ==
    {Webhook("w1", "completed", AucDict, None),
     Webhook("w1", "failed", None, "E1"),
     Webhook("w1", "running", None, None),
     Webhook("w1", "Succeeded", None, None)}
FewWorkflowIds == {"w1"}
NewSignupForms == {Form("Cat", "c@x.org", "secret1", "secret1", <<>>)}

\* The create-workflow page: its widgets and its submit button.
NextCreate ==
    \/ do_login(OneBrowser, FewEmails, StoredPassword)
    \/ do_logout(OneBrowser)
    \/ create_page(Browsers)
    \/ toggle_directive(Browsers, Directives)
    \/ select_species(Browsers, ias_species_names)
    \/ submit_workflow(OneBrowser, SubmitForms, FewAnswers)

SpecCreate == Init /\ [][NextCreate]_vars

\* The pages over time: sessions opened, expired and closed in two browsers,
\* the pages requested in one of them.
NextPages ==
    \/ Tick
    \/ do_login(Browsers, FewEmails, StoredPassword)
    \/ do_signup(OneBrowser, NewSignupForms)
    \/ do_logout(Browsers)
    \/ root_page(OneBrowser)
    \/ select_workflow_page(OneBrowser)
    \/ account_page(OneBrowser)
    \/ do_delete(OneBrowser, FewEmails)
    \/ create_page(OneBrowser)
    \/ workflows_page(OneBrowser)
    \/ results_page(OneBrowser, FewWorkflowIds)

SpecPages == Init /\ [][NextPages]_vars

NextAll ==
    \/ api_signup(FewEmails, StoredPassword)
    \/ api_login(FewEmails, StoredPassword)
    \/ do_login(OneBrowser, FewEmails, StoredPassword)
    \/ do_signup(OneBrowser, FewSignupForms)
    \/ do_logout(OneBrowser)
    \/ account_page(OneBrowser)
    \/ save_profile(OneBrowser, FewProfileForms)
    \/ change_password(OneBrowser, FewPasswordForms)
    \/ do_delete(OneBrowser, FewEmails)
    \/ api_submit_workflow(FewAnswers)
    \/ create_page(OneBrowser)
    \/ toggle_directive(OneBrowser, InvasiveOnly)
    \/ select_species(OneBrowser, OneSpecies)
    \/ submit_workflow(OneBrowser, FewForms, FewAnswers)
    \/ workflow_webhook(WebhookPaths, FewWebhookBodies)
    \/ api_get_workflows
    \/ api_delete_workflow(WorkflowIds)
    \/ workflows_page(OneBrowser)
    \/ wf_do_delete(OneBrowser)
    \/ results_page(OneBrowser, FewWorkflowIds)

Spec == Init /\ [][NextAll]_vars
====
